---- MODULE Spec2Model ----
(***************************************************************************)
(* A model of the StructureDefinition class of SUSHI                       *)
(* (src/fhirtypes/StructureDefinition.ts): the ordered element list, the   *)
(* id-based insertion of addElement, the lookup of findElement, the path   *)
(* resolution of findElementByPath together with its helpers, and the      *)
(* import and export of fromJSON and toJSON.                               *)
(*                                                                         *)
(* Strings are sequences of one-character strings, so that startsWith,     *)
(* endsWith, split and slice work on characters exactly as in JavaScript.  *)
(* An optional value (undefined or a value) is a sequence of length 0 or 1.*)
(***************************************************************************)
EXTENDS Integers, Sequences, FiniteSets, TLC

VARIABLES type, elements, call

vars == <<type, elements, call>>

---------------------------------------------------------------------------
(* Bounds of the model *)

MaxElements == 4

\* the number of constraints the rules give to the nodes of a resource
MaxConstraints == 2

---------------------------------------------------------------------------
(* Optional values *)

None == <<>>

Some(v) == <<v>>

IsSome(o) == Len(o) = 1

---------------------------------------------------------------------------
(* JavaScript string primitives *)

StartsWith(s, p) == Len(p) <= Len(s) /\ SubSeq(s, 1, Len(p)) = p

EndsWith(s, p) == Len(p) <= Len(s) /\ SubSeq(s, Len(s) - Len(p) + 1, Len(s)) = p

\* s.slice(0, -n)
DropLast(s, n) == IF Len(s) <= n THEN <<>> ELSE SubSeq(s, 1, Len(s) - n)

\* the position (1-based) of the first occurrence of character ch in s, 0 if none
RECURSIVE IndexFrom(_, _, _)
IndexFrom(s, ch, i) ==
  IF i > Len(s) THEN 0
  ELSE IF s[i] = ch THEN i
  ELSE IndexFrom(s, ch, i + 1)

\* s.split(ch): the pieces of s between occurrences of ch (always at least one)
RECURSIVE Split(_, _)
Split(s, ch) ==
  LET k == IndexFrom(s, ch, 1) IN
  IF k = 0 THEN <<s>>
  ELSE <<SubSeq(s, 1, k - 1)>> \o Split(SubSeq(s, k + 1, Len(s)), ch)

\* parts.join(ch)
RECURSIVE Join(_, _)
Join(parts, ch) ==
  IF Len(parts) = 0 THEN <<>>
  ELSE IF Len(parts) = 1 THEN parts[1]
  ELSE parts[1] \o <<ch>> \o Join(Tail(parts), ch)

\* s.lastIndexOf(ch), 0-based, -1 if none
RECURSIVE LastIndexOf(_, _)
LastIndexOf(s, ch) ==
  IF Len(s) = 0 THEN -1
  ELSE IF s[Len(s)] = ch THEN Len(s) - 1
  ELSE LastIndexOf(SubSeq(s, 1, Len(s) - 1), ch)

LowerChars == <<"a", "b", "c", "d", "e", "p", "r", "s", "t", "v", "x">>

UpperChars == <<"A", "B", "C", "D", "E", "P", "R", "S", "T", "V", "X">>

ToUpperChar(c) ==
  IF \E i \in 1..Len(LowerChars) : LowerChars[i] = c
  THEN UpperChars[CHOOSE i \in 1..Len(LowerChars) : LowerChars[i] = c]
  ELSE c

ToLowerChar(c) ==
  IF \E i \in 1..Len(UpperChars) : UpperChars[i] = c
  THEN LowerChars[CHOOSE i \in 1..Len(UpperChars) : UpperChars[i] = c]
  ELSE c

\* lodash capitalize: first character to upper case, the remaining to lower case
capitalize(s) ==
  IF Len(s) = 0 THEN <<>>
  ELSE <<ToUpperChar(s[1])>> \o [i \in 1..(Len(s) - 1) |-> ToLowerChar(s[i + 1])]

\* `${v}` of an optional string
Interpolate(o) ==
  IF IsSome(o) THEN o[1] ELSE <<"u", "n", "d", "e", "f", "i", "n", "e", "d">>

---------------------------------------------------------------------------
(* ElementDefinition: the attributes the StructureDefinition code reads *)

\* the path of an element is its id without the slice names
StripSliceName(seg) ==
  LET k == IndexFrom(seg, ":", 1) IN IF k = 0 THEN seg ELSE SubSeq(seg, 1, k - 1)

PathOfId(id) ==
  LET segs == Split(id, ".") IN
  Join([i \in 1..Len(segs) |-> StripSliceName(segs[i])], ".")

TypeOf(code, targetProfile) == [code |-> code, targetProfile |-> targetProfile]

\* new ElementDefinition(id) with its slice name and types assigned: nothing
\* else is defined yet. structDef is the name of the resource the node belongs
\* to, original what the node was when its original was captured
ElementDefinition(id, sliceName, types) ==
  [id |-> id, path |-> PathOfId(id), sliceName |-> sliceName,
   min |-> None, max |-> None, type |-> types,
   mustSupport |-> None, isModifier |-> None, isSummary |-> None,
   fixed |-> None, binding |-> None, slicing |-> None,
   structDef |-> None, original |-> None]

\* ElementDefinition.toJSON: the JSON of an element has the properties of the
\* node, without the links to its resource and to its original
ElementToJSON(e) ==
  [id |-> e.id, path |-> e.path, sliceName |-> e.sliceName,
   min |-> e.min, max |-> e.max, type |-> e.type,
   mustSupport |-> e.mustSupport, isModifier |-> e.isModifier,
   isSummary |-> e.isSummary, fixed |-> e.fixed, binding |-> e.binding,
   slicing |-> e.slicing]

\* captureOriginal: the node remembers what it is now
captureOriginal(e) == [e EXCEPT !.original = Some(ElementToJSON(e))]

\* ElementDefinition.fromJSON: a node with the properties of the JSON, which
\* are its original; it belongs to no resource yet
ElementFromJSON(j) ==
  captureOriginal(
    [id |-> j.id, path |-> j.path, sliceName |-> j.sliceName,
     min |-> j.min, max |-> j.max, type |-> j.type,
     mustSupport |-> j.mustSupport, isModifier |-> j.isModifier,
     isSummary |-> j.isSummary, fixed |-> j.fixed, binding |-> j.binding,
     slicing |-> j.slicing, structDef |-> None, original |-> None])

\* hasDiff: the node is new (it has no original) or differs from its original
hasDiff(e) == ~IsSome(e.original) \/ ElementToJSON(e) # e.original[1]

\* the value of a property in the diff: the value if it changed, else undefined
DiffOf(e, now, before) == IF ~IsSome(e.original) \/ now # before THEN now ELSE None

\* calculateDiff: the node with its id and path and only the changed properties
calculateDiff(e) ==
  LET o == IF IsSome(e.original) THEN e.original[1] ELSE ElementToJSON(e) IN
  [e EXCEPT !.sliceName   = DiffOf(e, e.sliceName, o.sliceName),
            !.min         = DiffOf(e, e.min, o.min),
            !.max         = DiffOf(e, e.max, o.max),
            !.type        = DiffOf(e, e.type, o.type),
            !.mustSupport = DiffOf(e, e.mustSupport, o.mustSupport),
            !.isModifier  = DiffOf(e, e.isModifier, o.isModifier),
            !.isSummary   = DiffOf(e, e.isSummary, o.isSummary),
            !.fixed       = DiffOf(e, e.fixed, o.fixed),
            !.binding     = DiffOf(e, e.binding, o.binding),
            !.slicing     = DiffOf(e, e.slicing, o.slicing)]

---------------------------------------------------------------------------
(* StructureDefinition.addElement *)

\* no scan: the element is pushed behind the last element
ScanToEnd(els, id, i, lastMatchId) == Len(els)

\* the index (0-based) at which the scan of addElement stops
RECURSIVE ScanInsertionIndex(_, _, _, _)
ScanInsertionIndex(els, id, i, lastMatchId) ==
  IF i >= Len(els) THEN i
  ELSE LET currentId == els[i + 1].id IN
       IF StartsWith(id, currentId)
       THEN ScanInsertionIndex(els, id, i + 1, currentId)
       ELSE IF ~StartsWith(currentId, lastMatchId)
       THEN i
       ELSE ScanInsertionIndex(els, id, i + 1, lastMatchId)

\* a scan whose lastMatchId starts as the id of the new element
InsertionIndexSeeded(els, element) ==
  ScanInsertionIndex(els, element.id, 0, element.id)

\* let i = 0; let lastMatchId = ''; the scan; i is where it stops
InsertionIndex(els, element) == ScanInsertionIndex(els, element.id, 0, <<>>)

\* a splice that overwrites the element at i: els.splice(i, 1, element)
SpliceReplacing(els, i, element) ==
  SubSeq(els, 1, i) \o <<element>> \o SubSeq(els, i + 2, Len(els))

\* els.splice(i, 0, element)
Splice(els, i, element) ==
  SubSeq(els, 1, i) \o <<element>> \o SubSeq(els, i + 1, Len(els))

addElement(els, element) == Splice(els, InsertionIndex(els, element), element)

---------------------------------------------------------------------------
(* The type resolvers a caller passes to findElementByPath (ResolveFn) *)

Reference == <<"R", "e", "f", "e", "r", "e", "n", "c", "e">>

\* the nodes of a resolved structure definition: they belong to it, and they
\* are what they were when it was loaded
Loaded(name, els) ==
  [k \in 1..Len(els) |-> [captureOriginal(els[k]) EXCEPT !.structDef = Some(name)]]

\* the structure definition of a complex type B with the children c and d
DefB ==
  [type |-> Some(<<"B">>),
   elements |-> Loaded("B",
                <<ElementDefinition(<<"B">>, None, <<>>),
                  ElementDefinition(<<"B", ".", "c">>, None, <<TypeOf(<<"s">>, None)>>),
                  ElementDefinition(<<"B", ".", "d">>, None, <<TypeOf(<<"s">>, None)>>)>>)]

\* the structure definition of a primitive type s with the child e
DefS ==
  [type |-> Some(<<"s">>),
   elements |-> Loaded("s",
                <<ElementDefinition(<<"s">>, None, <<>>),
                  ElementDefinition(<<"s", ".", "e">>, None, <<TypeOf(<<"s">>, None)>>)>>)]

\* "none" is the default resolver () => undefined; "defs" knows the types B and s
Resolvers == {"none", "defs"}

\* a resolver that finds the type s whatever it is asked for
ResolveAsS(resolve, code) == Some(DefS)

Resolve(resolve, code) ==
  IF resolve = "defs" /\ code = <<"B">> THEN Some(DefB)
  ELSE IF resolve = "defs" /\ code = <<"s">> THEN Some(DefS)
  ELSE None

---------------------------------------------------------------------------
(* ElementDefinition methods used by findElementByPath *)

\* the indices (in tree order) of the nodes below node i: the ids that extend
\* the id of node i by a dot and more
children(els, i) ==
  SelectSeq([j \in 1..Len(els) |-> j],
            LAMBDA j : j # i /\ StartsWith(els[j].id, els[i].id \o <<".">>))

\* the slicing configuration set by sliceIt(type, path, ordered, rules)
sliceIt(els, i, discType, discPath, ordered, rules) ==
  [els EXCEPT ![i].slicing =
     Some([discriminator |-> <<[type |-> discType, path |-> discPath]>>,
           ordered |-> ordered, rules |-> rules])]

\* the index of the first node with the given id, 0 if there is none
RECURSIVE FindIndexById(_, _, _)
FindIndexById(els, id, i) ==
  IF i > Len(els) THEN 0
  ELSE IF els[i].id = id THEN i
  ELSE FindIndexById(els, id, i + 1)

\* addSlice(name, type) on node i: the slice of node i named name, with the
\* single allowed type t; a slice that is already there is returned as it is.
\* The slice is a copy of node i that is new: it has no slicing and no original
addSlice(els, i, name, t) ==
  LET sliceId  == els[i].id \o <<":">> \o name
      existing == FindIndexById(els, sliceId, 1)
      slice    == [els[i] EXCEPT !.id = sliceId, !.sliceName = Some(name),
                                 !.type = <<t>>, !.slicing = None,
                                 !.original = None]
      at       == InsertionIndex(els, slice)
  IN IF existing # 0
     THEN [elements |-> els, index |-> existing]
     ELSE [elements |-> Splice(els, at, slice), index |-> at + 1]

\* node e of the structure definition def itself, not a copy of it
RerootShared(def, e, n) == e

\* a copy of node e of the structure definition def, re-rooted under node n:
\* it belongs to the resource of n, and it is inherited, so that what it is
\* now is its original
Reroot(def, e, n) ==
  LET rootId   == def.elements[1].id
      rootPath == def.elements[1].path
  IN captureOriginal(
       [e EXCEPT !.id   = n.id \o SubSeq(e.id, Len(rootId) + 1, Len(e.id)),
                 !.path = n.path \o SubSeq(e.path, Len(rootPath) + 1, Len(e.path)),
                 !.structDef = n.structDef])

\* addElements(list) that also follows where each added node ends up:
\* added holds the indices (1-based) of the nodes added so far
RECURSIVE AddTracked(_, _, _, _)
AddTracked(els, list, k, added) ==
  IF k > Len(list) THEN [elements |-> els, indices |-> added]
  ELSE LET at == InsertionIndex(els, list[k])
           shifted == [j \in 1..Len(added) |->
                         IF added[j] > at THEN added[j] + 1 ELSE added[j]]
       IN AddTracked(Splice(els, at, list[k]), list, k + 1,
                     shifted \o <<at + 1>>)

\* unfold(resolve) on node i: copies of the children of the node's type are
\* added below node i and returned; children that are already there are
\* returned as they are; nothing is returned if the node does not have exactly
\* one type or if the type cannot be resolved
unfold(els, i, resolve) ==
  IF Len(children(els, i)) > 0
  THEN [elements |-> els, indices |-> children(els, i)]
  ELSE IF Len(els[i].type) # 1
  THEN [elements |-> els, indices |-> <<>>]
  ELSE LET def == Resolve(resolve, els[i].type[1].code) IN
       IF ~IsSome(def)
       THEN [elements |-> els, indices |-> <<>>]
       ELSE LET src == def[1].elements
                copies == [k \in 1..(Len(src) - 1) |-> Reroot(def[1], src[k + 1], els[i])]
            IN AddTracked(els, copies, 1, <<>>)

---------------------------------------------------------------------------
(* StructureDefinition.parseFSHPath *)

PathPart(base, brackets) == [base |-> base, brackets |-> brackets]

ParsePathPart(pathPart) ==
  LET splitPathPart == Split(pathPart, "[") IN
  IF Len(splitPathPart) = 1 \/ EndsWith(pathPart, <<"[", "x", "]">>)
  THEN PathPart(pathPart, None)
  ELSE PathPart(splitPathPart[1],
                Some([k \in 1..(Len(splitPathPart) - 1) |->
                        DropLast(splitPathPart[k + 1], 1)]))

parseFSHPath(fshPath) ==
  LET splitPath == Split(fshPath, ".") IN
  [k \in 1..Len(splitPath) |-> ParsePathPart(splitPath[k])]

---------------------------------------------------------------------------
(* StructureDefinition.sliceMatchingValueX *)

\* the first type t of element e with e.path minus "[x]" plus capitalize(t.code)
\* equal to fhirPath; 0 if e is no choice element or has no such type
RECURSIVE MatchingTypeIndex(_, _, _)
MatchingTypeIndex(e, fhirPath, k) ==
  IF ~EndsWith(e.path, <<"[", "x", "]">>) \/ k > Len(e.type) THEN 0
  ELSE IF DropLast(e.path, 3) \o capitalize(e.type[k].code) = fhirPath THEN k
  ELSE MatchingTypeIndex(e, fhirPath, k + 1)

\* a search that takes the last matching choice element instead of the first
RECURSIVE FindMatchingXLast(_, _, _, _)
FindMatchingXLast(els, fhirPath, candidates, k) ==
  IF k > Len(candidates) THEN 0
  ELSE LET later == FindMatchingXLast(els, fhirPath, candidates, k + 1) IN
       IF later # 0 THEN later
       ELSE IF MatchingTypeIndex(els[candidates[k]], fhirPath, 1) # 0 THEN candidates[k]
       ELSE 0

\* elements.find(...): the first candidate that is a matching choice element
RECURSIVE FindMatchingX(_, _, _, _)
FindMatchingX(els, fhirPath, candidates, k) ==
  IF k > Len(candidates) THEN 0
  ELSE IF MatchingTypeIndex(els[candidates[k]], fhirPath, 1) # 0 THEN candidates[k]
  ELSE FindMatchingX(els, fhirPath, candidates, k + 1)

\* a choice substitution that closes the slicing and names the slice after the
\* whole path
sliceMatchingValueXClosed(els, fhirPath, candidates) ==
  LET x == FindMatchingX(els, fhirPath, candidates, 1) IN
  IF x = 0 THEN [found |-> FALSE, elements |-> els, index |-> 0]
  ELSE LET matchingType == els[x].type[MatchingTypeIndex(els[x], fhirPath, 1)]
           sliced       == sliceIt(els, x, "type", "$this", FALSE, "closed")
           newSlice     == addSlice(sliced, x, fhirPath, matchingType)
       IN [found |-> TRUE, elements |-> newSlice.elements, index |-> newSlice.index]

sliceMatchingValueX(els, fhirPath, candidates) ==
  LET x == FindMatchingX(els, fhirPath, candidates, 1) IN
  IF x = 0 THEN [found |-> FALSE, elements |-> els, index |-> 0]
  ELSE LET matchingType == els[x].type[MatchingTypeIndex(els[x], fhirPath, 1)]
           sliced       == sliceIt(els, x, "type", "$this", FALSE, "open")
           sliceName    == SubSeq(fhirPath, LastIndexOf(fhirPath, ".") + 2, Len(fhirPath))
           newSlice     == addSlice(sliced, x, sliceName, matchingType)
       IN [found |-> TRUE, elements |-> newSlice.elements, index |-> newSlice.index]

---------------------------------------------------------------------------
(* StructureDefinition.findMatchingSlice and findMatchingRef *)

\* a search that goes by the first bracket token alone
RECURSIVE findMatchingSliceByFirstToken(_, _, _, _)
findMatchingSliceByFirstToken(els, pathPart, candidates, k) ==
  IF k > Len(candidates) THEN 0
  ELSE IF els[candidates[k]].sliceName = Some(pathPart.brackets[1][1])
  THEN candidates[k]
  ELSE findMatchingSliceByFirstToken(els, pathPart, candidates, k + 1)

\* elements.find(e => e.sliceName === brackets.join('/')); 0 if there is none
RECURSIVE findMatchingSlice(_, _, _, _)
findMatchingSlice(els, pathPart, candidates, k) ==
  IF k > Len(candidates) THEN 0
  ELSE IF els[candidates[k]].sliceName = Some(Join(pathPart.brackets[1], "/"))
  THEN candidates[k]
  ELSE findMatchingSlice(els, pathPart, candidates, k + 1)

\* a reference name that keeps the version
TargetRefNameWithVersion(tp) ==
  LET bySlash == Split(tp, "/") IN bySlash[Len(bySlash)]

\* the reference name of a target profile: the part after the last '/',
\* without the version that follows '|'
TargetRefName(tp) ==
  LET bySlash   == Split(tp, "/")
      tpRefName == bySlash[Len(bySlash)]
  IN Split(tpRefName, "|")[1]

\* targetProfile.find(...): the first target profile named refName
RECURSIVE FindTargetProfile(_, _, _)
FindTargetProfile(targetProfile, refName, k) ==
  IF k > Len(targetProfile) THEN None
  ELSE IF TargetRefName(targetProfile[k]) = refName THEN Some(targetProfile[k])
  ELSE FindTargetProfile(targetProfile, refName, k + 1)

\* the type test without the guard t.targetProfile &&
RefTypeMatchesUnguarded(t, brackets) ==
  IF t.code # Reference THEN "false"
  ELSE IF ~IsSome(t.targetProfile) THEN "throw"
  ELSE LET tp == FindTargetProfile(t.targetProfile[1], brackets[Len(brackets)], 1)
       IN IF IsSome(tp) /\ tp[1] # <<>> THEN "true" ELSE "false"

\* the value the for loop over e.type returns: it returns in its first
\* iteration, so only the first type is looked at.  "throw" is the TypeError of
\* calling find on an undefined targetProfile
RefTypeMatches(t, brackets) ==
  IF t.code # Reference THEN "false"
  ELSE IF ~IsSome(t.targetProfile) THEN "false"
  ELSE LET tp == FindTargetProfile(t.targetProfile[1], brackets[Len(brackets)], 1)
       IN IF IsSome(tp) /\ tp[1] # <<>> THEN "true" ELSE "false"

\* the callback of elements.find in findMatchingRef
RefElementMatches(e, brackets) ==
  IF Len(brackets) = 1 \/ e.sliceName = Some(Join(DropLast(brackets, 1), "/"))
  THEN IF Len(e.type) = 0 THEN "false" ELSE RefTypeMatches(e.type[1], brackets)
  ELSE "false"

\* the index of the first matching candidate, 0 if there is none, -1 if the
\* search throws
RECURSIVE findMatchingRef(_, _, _, _)
findMatchingRef(els, pathPart, candidates, k) ==
  IF k > Len(candidates) THEN 0
  ELSE LET m == RefElementMatches(els[candidates[k]], pathPart.brackets[1]) IN
       IF m = "throw" THEN -1
       ELSE IF m = "true" THEN candidates[k]
       ELSE findMatchingRef(els, pathPart, candidates, k + 1)

---------------------------------------------------------------------------
(* StructureDefinition.findElementByPath *)

\* this.elements.find(e => e.path === fullPath): index of the first, 0 if none
RECURSIVE FindIndexByPath(_, _, _)
FindIndexByPath(els, fullPath, i) ==
  IF i > Len(els) THEN 0
  ELSE IF els[i].path = fullPath THEN i
  ELSE FindIndexByPath(els, fullPath, i + 1)

FullPath(tp, path) ==
  IF path # <<>> THEN Interpolate(tp) \o <<".">> \o path ELSE Interpolate(tp)

\* candidates.filter(e => e.path.startsWith(fhirPathString))
Narrow(els, candidates, fhirPathString) ==
  SelectSeq(candidates, LAMBDA j : StartsWith(els[j].path, fhirPathString))

\* a filter after the loop that keeps the stray descendants
ExactMatchesByPrefix(els, candidates, fhirPathString) ==
  SelectSeq(candidates, LAMBDA j : StartsWith(els[j].path, fhirPathString))

\* the filter after the loop: candidates.filter(e => e.path === fhirPathString)
ExactMatches(els, candidates, fhirPathString) ==
  SelectSeq(candidates, LAMBDA j : els[j].path = fhirPathString)

\* a loop that unfolds the first of the previous candidates however many there are
UnfoldsFirstCandidate(candidates) == Len(candidates) >= 1

\* whether the previous candidates make the loop unfold (matchingElements.length === 1)
UnfoldsCandidate(candidates) == Len(candidates) = 1

\* what findElementByPath returns together with what it leaves behind:
\* status is "found", "notfound" (undefined is returned) or "throw"; index is
\* the place of the returned node in elements; fhirPathString is the running
\* path, log the steps taken and exact the number of candidates that were left
\* by the filter after the loop; trace has one Step for each part of the path
\* that the loop went through
Outcome(status, index, els, fhirPathString, log, exact, trace) ==
  [status |-> status, index |-> index, elements |-> els,
   fhirPathString |-> fhirPathString, log |-> log, exact |-> exact,
   trace |-> trace]

\* what one pass of the loop did for the part pathPart: before is the elements
\* and prev the number of candidates it started with, narrowed the number that
\* the filter on the path left, sliced whether sliceMatchingValueX returned a
\* slice and slice that node, unfold whether unfold was called, on the node
\* node and elements tree, and returned how many nodes it gave back; after is
\* the elements and path the running path at the end of the pass, matched the
\* candidates (places in after) that the base of the part left, candidates
\* those at the end of the pass, bracket what the brackets of the part came to
Step(pathPart, before, prev, narrowed, sliced, slice, unfolds, node, tree, returned, after, path, matched, candidates, bracket) ==
  [base |-> pathPart.base, brackets |-> pathPart.brackets, before |-> before,
   prev |-> prev, narrowed |-> narrowed, sliced |-> sliced, slice |-> slice,
   unfold |-> unfolds, node |-> node, tree |-> tree, returned |-> returned,
   after |-> after, path |-> path, matched |-> matched,
   candidates |-> candidates, bracket |-> bracket]

\* a last line that takes a match whenever there is any
AtLeastOne(matches) == Len(matches) >= 1

\* "one and only one match" of the last line of findElementByPath
OneAndOnlyOne(matches) == Len(matches) = 1

\* a filter by brackets that tries the reference before the slice
BracketStepRefFirst(els, pathPart, candidates) ==
  LET matchingRefElement == findMatchingRef(els, pathPart, candidates, 1) IN
  IF matchingRefElement > 0
  THEN [status |-> "ref",
        candidates |-> <<matchingRefElement>> \o children(els, matchingRefElement)]
  ELSE IF matchingRefElement < 0
  THEN [status |-> "throw", candidates |-> <<>>]
  ELSE LET sliceElement == findMatchingSlice(els, pathPart, candidates, 1) IN
       IF sliceElement # 0
       THEN [status |-> "slice",
             candidates |-> <<sliceElement>> \o children(els, sliceElement)]
       ELSE [status |-> "notfound", candidates |-> <<>>]

\* the filter by brackets at the end of one iteration of the loop
BracketStep(els, pathPart, candidates) ==
  LET sliceElement == findMatchingSlice(els, pathPart, candidates, 1) IN
  IF sliceElement # 0
  THEN [status |-> "slice", candidates |-> <<sliceElement>> \o children(els, sliceElement)]
  ELSE LET matchingRefElement == findMatchingRef(els, pathPart, candidates, 1) IN
       IF matchingRefElement > 0
       THEN [status |-> "ref",
             candidates |-> <<matchingRefElement>> \o children(els, matchingRefElement)]
       ELSE IF matchingRefElement = 0
       THEN [status |-> "notfound", candidates |-> <<>>]
       ELSE [status |-> "throw", candidates |-> <<>>]

\* the one element of a set of one element
Only(S) == CHOOSE x \in S : TRUE

\* lines 139-149 of the loop: the candidates are narrowed to those under
\* path1, and if none is left a choice is substituted. matches is the
\* candidates and path the running path that this leaves
NarrowOrSlice(els, path1, matchingElements) ==
  Only({ Only({ [narrowed |-> narrowed, found |-> newSlice.found,
                 index |-> newSlice.index, elements |-> newSlice.elements,
                 path |-> IF newSlice.found
                          THEN newSlice.elements[newSlice.index].path ELSE path1,
                 matches |-> IF newSlice.found THEN <<newSlice.index>> ELSE narrowed]
               : newSlice \in {IF Len(narrowed) = 0
                               THEN sliceMatchingValueX(els, path1, matchingElements)
                               ELSE [found |-> FALSE, elements |-> els, index |-> 0]} })
         : narrowed \in {Narrow(els, matchingElements, path1)} })

\* lines 154-162 of the loop: if no candidate is left and the part before left
\* exactly one, that one is unfolded and what unfold returns is narrowed
UnfoldIfSingle(sliced, matchingElements, resolve) ==
  IF Len(sliced.matches) = 0 /\ UnfoldsCandidate(matchingElements)
  THEN Only({ [called |-> TRUE, node |-> Some(sliced.elements[matchingElements[1]]),
               returned |-> Len(unfolded.indices), elements |-> unfolded.elements,
               matches |-> Narrow(unfolded.elements, unfolded.indices, sliced.path)]
              : unfolded \in {unfold(sliced.elements, matchingElements[1], resolve)} })
  ELSE [called |-> FALSE, node |-> None, returned |-> 0,
        elements |-> sliced.elements, matches |-> sliced.matches]

\* lines 172-187 of the loop: the brackets of the part, if it has any
BracketsIfAny(unfolded, pathPart) ==
  IF Len(unfolded.matches) # 0 /\ IsSome(pathPart.brackets)
  THEN BracketStep(unfolded.elements, pathPart, unfolded.matches)
  ELSE [status |-> "none", candidates |-> unfolded.matches]

\* what a pass of the loop has come to, from what its three parts have done
Pass(pathPart, els, matchingElements, sliced, unfolded, b) ==
  [status |-> IF Len(unfolded.matches) = 0 THEN "notfound"
              ELSE IF b.status \in {"notfound", "throw"} THEN b.status
              ELSE "none",
   log    |-> <<"narrow">>
                \o (IF Len(sliced.narrowed) = 0 THEN <<"choice">> ELSE <<>>)
                \o (IF sliced.found THEN <<"sliced">> ELSE <<>>)
                \o (IF unfolded.called THEN <<"unfold">> ELSE <<>>)
                \o (IF b.status = "none" THEN <<>> ELSE <<b.status>>),
   step   |-> Step(pathPart, els, Len(matchingElements), Len(sliced.narrowed),
                   sliced.found,
                   IF sliced.found THEN Some(sliced.elements[sliced.index]) ELSE None,
                   unfolded.called, unfolded.node, sliced.elements,
                   unfolded.returned, unfolded.elements, sliced.path,
                   unfolded.matches,
                   IF b.status \in {"notfound", "throw"} THEN <<>> ELSE b.candidates,
                   b.status)]

\* one pass of the loop, for the part pathPart: the Step it makes, the log of
\* it, and in status whether the loop goes on ("none") or the function returns
LoopBody(els, pathPart, fhirPathString, matchingElements, resolve) ==
  Only({ Only({ Only({ Pass(pathPart, els, matchingElements, sliced, unfolded, b)
                       : b \in {BracketsIfAny(unfolded, pathPart)} })
                : unfolded \in {UnfoldIfSingle(sliced, matchingElements, resolve)} })
         : sliced \in {NarrowOrSlice(els, fhirPathString \o <<".">> \o pathPart.base,
                                     matchingElements)} })

\* the loop over the parsed path from part k on
RECURSIVE WalkPath(_, _, _, _, _, _, _, _)
WalkPath(els, parsedPath, k, fhirPathString, matchingElements, resolve, log, trace) ==
  IF k > Len(parsedPath)
  THEN LET exact == ExactMatches(els, matchingElements, fhirPathString) IN
       IF OneAndOnlyOne(exact)
       THEN Outcome("found", exact[1], els, fhirPathString, log, Len(exact), trace)
       ELSE Outcome("notfound", 0, els, fhirPathString, log, Len(exact), trace)
  ELSE Only({ IF pass.status # "none"
              THEN Outcome(pass.status, 0, pass.step.after, pass.step.path,
                           log \o pass.log, 0, Append(trace, pass.step))
              ELSE WalkPath(pass.step.after, parsedPath, k + 1, pass.step.path,
                            pass.step.candidates, resolve, log \o pass.log,
                            Append(trace, pass.step))
              : pass \in {LoopBody(els, parsedPath[k], fhirPathString,
                                   matchingElements, resolve)} })

findElementByPath(tp, els, path, resolve) ==
  LET fullPath == FullPath(tp, path)
      match    == FindIndexByPath(els, fullPath, 1)
  IN IF match # 0
     THEN Outcome("found", match, els, fullPath, <<"fast">>, 1, <<>>)
     ELSE WalkPath(els, parseFSHPath(path), 1, Interpolate(tp),
                   [j \in 1..Len(els) |-> j], resolve, <<>>, <<>>)

---------------------------------------------------------------------------
(* StructureDefinition: constructor and fromJSON *)

\* the name of the resource the model follows
This == "sd"

\* the root element the constructor creates: new ElementDefinition('') with
\* structDef, min, max, mustSupport, isModifier and isSummary assigned
RootElement ==
  [ElementDefinition(<<>>, None, <<>>) EXCEPT
     !.structDef = Some(This), !.min = Some(0), !.max = Some(<<"*">>),
     !.mustSupport = Some(FALSE), !.isModifier = Some(FALSE),
     !.isSummary = Some(FALSE)]

\* a loop that puts every element in front of the ones before it
UnshiftSnapshot(element) ==
  [k \in 1..Len(element) |->
     [ElementFromJSON(element[Len(element) + 1 - k]) EXCEPT
        !.structDef = Some(This)]]

\* the loop of fromJSON over json.snapshot.element: every element becomes a
\* node of the new resource, pushed in the order of the snapshot
PushSnapshot(element) ==
  [k \in 1..Len(element) |->
     [ElementFromJSON(element[k]) EXCEPT !.structDef = Some(This)]]

\* a fromJSON that keeps the root element of the constructor
FromJSONElementsKeepingRoot(json) ==
  IF IsSome(json.snapshot) /\ IsSome(json.snapshot[1].element)
  THEN <<RootElement>> \o PushSnapshot(json.snapshot[1].element[1])
  ELSE <<RootElement>>

\* the elements of the resource built from json: sd.elements.length = 0, then
\* the nodes of the snapshot if json.snapshot && json.snapshot.element
FromJSONElements(json) ==
  IF IsSome(json.snapshot) /\ IsSome(json.snapshot[1].element)
  THEN PushSnapshot(json.snapshot[1].element[1])
  ELSE <<>>

\* a snapshot or a differential of a json with its element list
Snapshot(element) == Some([element |-> Some(element)])

\* what fromJSON returns: the type of the json (one of the PROPS) and the
\* elements; the resourceType and the differential of the json are not read
fromJSON(json) == [type |-> json.type, elements |-> FromJSONElements(json)]

---------------------------------------------------------------------------
(* StructureDefinition.findElement and toJSON *)

\* a lookup without the guard on the id
findElementUnguarded(els, id) == FindIndexById(els, id, 1)

\* findElement(id): the index of the first node with that id; 0 (undefined)
\* if there is none or if !id
findElement(els, id) ==
  IF id = <<>> THEN 0 ELSE FindIndexById(els, id, 1)

\* a snapshot of the nodes that have a diff only
SnapshotOfChanged(els) ==
  LET changed == SelectSeq(els, hasDiff) IN
  [k \in 1..Len(changed) |-> ElementToJSON(changed[k])]

\* j.snapshot.element: this.elements.map(e => e.toJSON())
SnapshotOf(els) == [k \in 1..Len(els) |-> ElementToJSON(els[k])]

\* a differential of every node
DifferentialOfAll(els) ==
  [k \in 1..Len(els) |-> ElementToJSON(calculateDiff(els[k]))]

\* j.differential.element:
\* this.elements.filter(e => e.hasDiff()).map(e => e.calculateDiff().toJSON())
DifferentialOf(els) ==
  LET changed == SelectSeq(els, hasDiff) IN
  [k \in 1..Len(changed) |-> ElementToJSON(calculateDiff(changed[k]))]

\* toJSON of the resource with the type tp and the elements els
toJSON(tp, els) ==
  [resourceType |-> "StructureDefinition", type |-> tp,
   snapshot |-> Snapshot(SnapshotOf(els)),
   differential |-> Snapshot(DifferentialOf(els))]

---------------------------------------------------------------------------
(* The inputs of the model *)

TypeT == <<"T">>

TargetP == <<"h", "/", "P", "|", "4">>

RefToP == TypeOf(Reference, Some(<<TargetP>>))

\* an element of a snapshot, with the cardinality 0..*
SnapshotElement(id, sliceName, types) ==
  ElementToJSON([ElementDefinition(id, sliceName, types) EXCEPT
                   !.min = Some(0), !.max = Some(<<"*">>)])

\* an element a caller makes for this resource and hands to addElement
NewElement(id, sliceName, types) ==
  [ElementDefinition(id, sliceName, types) EXCEPT !.structDef = Some(This)]

ElRoot == SnapshotElement(<<"T">>, None, <<>>)

ElA == SnapshotElement(<<"T", ".", "a">>, None, <<TypeOf(<<"B">>, None)>>)

ElAb == SnapshotElement(<<"T", ".", "a", "b">>, None, <<>>)

ElAC == NewElement(<<"T", ".", "a", ".", "c">>, None, <<TypeOf(<<"s">>, None)>>)

ElV == SnapshotElement(<<"T", ".", "v", "[", "x", "]">>, None,
                       <<TypeOf(<<"s">>, None), TypeOf(<<"d", "T">>, None)>>)

ElR == SnapshotElement(<<"T", ".", "r">>, None, <<RefToP>>)

\* the slice P of T.r, a Reference without target profiles
ElRSliceP == NewElement(<<"T", ".", "r", ":", "P">>, Some(<<"P">>),
                        <<TypeOf(Reference, None)>>)

\* a child e of the slice P of T.r
ElRPE == NewElement(<<"T", ".", "r", ":", "P", ".", "e">>, None,
                    <<TypeOf(<<"s">>, None)>>)

Json(snapshot) ==
  [resourceType |-> "StructureDefinition", type |-> Some(TypeT),
   snapshot |-> snapshot, differential |-> None]

Jsons ==
  { Json(None),
    Json(Snapshot(<<ElRoot, ElA>>)),
    Json(Snapshot(<<ElRoot, ElA, ElAb>>)),
    Json(Snapshot(<<ElRoot, ElV>>)),
    Json(Snapshot(<<ElRoot, ElR>>)) }

AddableElements == {ElAC, ElRSliceP, ElRPE}

\* what the tree alone is tried with: a snapshot with a sibling after T.a,
\* a second T.a, a second child of T.a
ElANew == NewElement(<<"T", ".", "a">>, None, <<TypeOf(<<"B">>, None)>>)

ElAD == NewElement(<<"T", ".", "a", ".", "d">>, None, <<TypeOf(<<"s">>, None)>>)

TreeJsons == Jsons \cup {Json(Snapshot(<<ElRoot, ElA, ElR>>))}

TreeElements == AddableElements \cup {ElANew, ElAD}

\* the ids findElement is asked for
Ids ==
  { <<>>,
    <<"T">>,
    <<"T", ".", "a">>,
    <<"T", ".", "a", ".", "c">>,
    <<"T", ".", "z">> }

\* what import and export are tried with: a snapshot whose element already
\* has a flag, a binding and the cardinality 1..*, a json without
\* snapshot.element, another resource type, and a differential
ElABound ==
  [ElA EXCEPT !.min = Some(1), !.mustSupport = Some(TRUE),
              !.binding = Some(<<"h", "/", "v", "s">>)]

JsonNoElement == Json(Some([element |-> None]))

JsonPatient ==
  [Json(Snapshot(<<ElRoot, ElA>>)) EXCEPT !.resourceType = "Patient"]

JsonWithDifferential ==
  [Json(Snapshot(<<ElRoot, ElA>>)) EXCEPT !.differential = Snapshot(<<ElAb>>)]

CodecJsons ==
  { Json(None), JsonNoElement, JsonPatient, JsonWithDifferential,
    Json(Snapshot(<<ElRoot, ElA>>)),
    Json(Snapshot(<<ElRoot, ElABound>>)),
    Json(Snapshot(<<ElRoot, ElA, ElV>>)) }

CodecPaths == { <<"v", "S">>, <<"a", ".", "c">> }

\* what a rule gives the node it has found: a fixed value, a narrowed
\* cardinality, a flag or a binding
Kinds == {"fixed", "card", "flag", "binding"}

Paths ==
  { <<>>,
    <<"a", ".", "c">>,
    <<"a", ".", "z">>,
    <<"a", "b", "[", "P", "]">>,
    <<"v", "S">>,
    <<"v", "S", ".", "e">>,
    <<"r">>,
    <<"r", "[", "P", "]">>,
    <<"r", "[", "P", "]", ".", "e">>,
    <<"r", "[", "P", "|", "4", "]">> }

\* what the resolution of paths is tried with: an element m whose second type
\* is the Reference, the slice P of T.r and its re-slice P/Q, and the slice P
\* of T.a
ElM == SnapshotElement(<<"T", ".", "m">>, None, <<TypeOf(<<"s">>, None), RefToP>>)

ElRP == SnapshotElement(<<"T", ".", "r", ":", "P">>, Some(<<"P">>), <<RefToP>>)

ElRPQ == SnapshotElement(<<"T", ".", "r", ":", "P", "/", "Q">>, Some(<<"P", "/", "Q">>), <<RefToP>>)

ElAP == SnapshotElement(<<"T", ".", "a", ":", "P">>, Some(<<"P">>), <<TypeOf(<<"s">>, None)>>)

ResolveJsons ==
  { Json(Snapshot(<<ElRoot, ElA>>)),
    Json(Snapshot(<<ElRoot, ElA, ElAb>>)),
    Json(Snapshot(<<ElRoot, ElV>>)),
    Json(Snapshot(<<ElRoot, ElM>>)),
    Json(Snapshot(<<ElRoot, ElR>>)),
    Json(Snapshot(<<ElRoot, ElR, ElRP, ElRPQ>>)),
    Json(Snapshot(<<ElRoot, ElA, ElAP>>)) }

ResolvePaths ==
  { <<"a", ".", "c">>,
    <<"a", ".", "z">>,
    <<"a", "[", "P", "]", ".", "e">>,
    <<"v", "S">>,
    <<"v", "S", ".", "e">>,
    <<"v", "D", "T">>,
    <<"v", "D", "t">>,
    <<"v", "[", "x", "]">>,
    <<"v", "[", "x", "]", "[", "s", "]">>,
    <<"m", "[", "P", "]">>,
    <<"r", ".", "e">>,
    <<"r", "[", "P", "]">>,
    <<"r", "[", "Q", "]">>,
    <<"r", "[", "P", "]", "[", "Q", "]">>,
    <<"r", "[", "P", "]", "[", "P", "]">>,
    <<"r", "[", "P", "]", "[", "Q", "]", "[", "P", "]">> }

---------------------------------------------------------------------------
(* The state machine *)

\* call records the last operation: what was called, what it returned (status,
\* index), the running path and the steps of the resolution, whether the
\* elements changed, and, in again, what the preceding operation returned if
\* that was the same findElementByPath call; arg is the JSON that fromJSON
\* was given and out the JSON that toJSON returned; trace is the Steps of the
\* loop of findElementByPath
CallRecord(op, path, resolve, status, index, changed, fhirPathString, log, exact, again) ==
  [op |-> op, path |-> path, resolve |-> resolve, status |-> status,
   index |-> index, changed |-> changed, fhirPathString |-> fhirPathString,
   log |-> log, exact |-> exact, again |-> again, arg |-> None, out |-> None,
   trace |-> <<>>]

Init ==
  /\ type = None
  /\ elements = <<RootElement>>
  /\ call = CallRecord("new", <<>>, "none", "none", 0, FALSE, <<>>, <<>>, 0, None)

FromJSON(json) ==
  /\ type' = json.type
  /\ elements' = FromJSONElements(json)
  /\ call' = [CallRecord("fromJSON", <<>>, "none", "none", 0, TRUE, <<>>, <<>>,
                         0, None) EXCEPT !.arg = Some(json)]

AddElement(element) ==
  /\ Len(elements) < MaxElements
  /\ elements' = addElement(elements, element)
  /\ call' = CallRecord("addElement", element.id, "none", "none", 0, TRUE,
                        <<>>, <<>>, 0, None)
  /\ UNCHANGED type

FindElementByPath(path, resolve) ==
  \E out \in {findElementByPath(type, elements, path, resolve)} :
  /\ Len(out.elements) <= MaxElements
  /\ elements' = out.elements
  /\ call' = [CallRecord("findElementByPath", path, resolve, out.status, out.index,
                         out.elements # elements, out.fhirPathString, out.log,
                         out.exact,
                         IF call.op = "findElementByPath" /\ call.path = path
                            /\ call.resolve = resolve
                         THEN Some([status |-> call.status, index |-> call.index])
                         ELSE None) EXCEPT !.trace = out.trace]
  /\ UNCHANGED type

\* findElement(id): nothing is assigned
FindElement(id) ==
  \E i \in {findElement(elements, id)} :
  /\ call' = CallRecord("findElement", id, "none",
                        IF i # 0 THEN "found" ELSE "notfound", i, FALSE,
                        <<>>, <<>>, 0, None)
  /\ UNCHANGED <<type, elements>>

\* toJSON(): nothing is assigned to the resource
ToJSON ==
  /\ call' = [CallRecord("toJSON", <<>>, "none", "none", 0, FALSE, <<>>, <<>>,
                         0, None) EXCEPT !.out = Some(toJSON(type, elements))]
  /\ UNCHANGED <<type, elements>>

\* whether node e has what a rule of that kind gives
Has(e, kind) ==
  CASE kind = "fixed"   -> IsSome(e.fixed)
    [] kind = "card"    -> e.min = Some(1)
    [] kind = "flag"    -> e.mustSupport = Some(TRUE)
    [] kind = "binding" -> IsSome(e.binding)

\* node e after a rule of that kind has assigned to it
Given(e, kind) ==
  CASE kind = "fixed"   -> [e EXCEPT !.fixed = Some(<<"v">>)]
    [] kind = "card"    -> [e EXCEPT !.min = Some(1)]
    [] kind = "flag"    -> [e EXCEPT !.mustSupport = Some(TRUE)]
    [] kind = "binding" -> [e EXCEPT !.binding = Some(<<"h", "/", "v", "s">>)]

\* the number of things the nodes have been given since their originals
Constraints(els) ==
  Cardinality({p \in (1..Len(els)) \X Kinds :
                 Has(els[p[1]], p[2])
                 /\ ~(IsSome(els[p[1]].original)
                      /\ Has(els[p[1]].original[1], p[2]))})

\* a rule applier mutates the node it was handed: node i is given something
\* of that kind that it does not have
Constrain(i, kind) ==
  /\ i \in 1..Len(elements)
  /\ ~Has(elements[i], kind)
  /\ Constraints(elements) < MaxConstraints
  /\ elements' = [elements EXCEPT ![i] = Given(elements[i], kind)]
  /\ call' = CallRecord("constrain", <<kind>>, "none", "none", i, TRUE,
                        <<>>, <<>>, 0, None)
  /\ UNCHANGED type

Next ==
  \/ \E json \in Jsons : FromJSON(json)
  \/ \E element \in AddableElements : AddElement(element)
  \/ \E path \in Paths, resolve \in Resolvers : FindElementByPath(path, resolve)

Spec == Init /\ [][Next]_vars

\* the resource under addElement alone: construction, import, insertions
\* and lookups by id
NextTree ==
  \/ \E json \in TreeJsons : FromJSON(json)
  \/ \E element \in TreeElements : AddElement(element)
  \/ \E id \in Ids : FindElement(id)

SpecTree == Init /\ [][NextTree]_vars

\* import and export: the resource is imported, its nodes are found (sliced,
\* unfolded) and constrained, and it is exported
NextCodec ==
  \/ \E json \in CodecJsons : FromJSON(json)
  \/ \E path \in CodecPaths, resolve \in Resolvers : FindElementByPath(path, resolve)
  \/ \E i \in 1..MaxElements, kind \in Kinds : Constrain(i, kind)
  \/ ToJSON

SpecCodec == Init /\ [][NextCodec]_vars

\* the resolution of paths: the resource is imported and its nodes are found
NextResolve ==
  \/ \E json \in ResolveJsons : FromJSON(json)
  \/ \E path \in ResolvePaths, resolve \in Resolvers : FindElementByPath(path, resolve)

SpecResolve == Init /\ [][NextResolve]_vars

---------------------------------------------------------------------------
(* Vocabulary of the properties *)

IsFind == call.op = "findElementByPath"

Found == IsFind /\ call.status = "found"

NotFound == IsFind /\ call.status = "notfound"

Logged(step) == \E k \in 1..Len(call.log) : call.log[k] = step

LastLogged(step) == Len(call.log) > 0 /\ call.log[Len(call.log)] = step

\* id d extends id n by a dot and more
IsDescendantId(d, n) == StartsWith(d, n \o <<".">>)

Positions(els) == 1..Len(els)

\* the nodes below every node are the run that directly follows it
ChildLocality(els) ==
  \A i \in Positions(els) :
    LET below == {j \in Positions(els) : IsDescendantId(els[j].id, els[i].id)}
    IN below = (i + 1)..(i + Cardinality(below))

HasId(els, id) == \E j \in Positions(els) : els[j].id = id

\* the base names of the parts of a path joined by dots: the path without
\* its bracket groups
BasePath(path) ==
  LET parts == parseFSHPath(path) IN
  Join([k \in 1..Len(parts) |-> parts[k].base], ".")

---------------------------------------------------------------------------
(* C1 *)

\* C1: after any sequence of addElement calls the child-locality invariant
\* holds for every node: the nodes whose id extends the node's id by a dotted
\* suffix are one contiguous run right after the node.
C1_ChildLocalityAfterAdds == ChildLocality(elements)

---------------------------------------------------------------------------
(* C2 *)

\* C2 as stated: a node that findElementByPath(P) returns has the path T.P
\* (T for an empty P), also when P is resolved through choice substitution or
\* brackets.
C2_ReturnedPathIsFullPath ==
  Found => elements[call.index].path = FullPath(type, call.path)

\* C2 as amended: the returned node's path is the final running path; that is
\* T.P when a node with path T.P is in the tree (and then the call always
\* returns a node), T joined with the base names of P (P without its bracket
\* groups) when no token was resolved by choice substitution, and the path of
\* the choice element name[x] extended by the later tokens otherwise.
C2_ReturnedPathIsRunningPath ==
  IsFind =>
    /\ (\E j \in Positions(elements) : elements[j].path = FullPath(type, call.path))
          => Found
    /\ Found =>
         /\ elements[call.index].path = call.fhirPathString
         /\ LastLogged("fast") => call.fhirPathString = FullPath(type, call.path)
         /\ (~LastLogged("fast") /\ ~Logged("sliced")) =>
               call.fhirPathString = Interpolate(type) \o <<".">> \o BasePath(call.path)
         /\ Logged("sliced") =>
               \E j \in Positions(elements) :
                 /\ EndsWith(elements[j].path, <<"[", "x", "]">>)
                 /\ StartsWith(call.fhirPathString, elements[j].path)

\* the case of C2: a path resolved by choice substitution, whose node has the
\* path of the choice element and not T.P
C2_Witness ==
  /\ Found
  /\ Logged("sliced")
  /\ call.path = <<"v", "S">>
  /\ elements[call.index].path = <<"T", ".", "v", "[", "x", "]">>

---------------------------------------------------------------------------
(* C3 *)

\* the name of the last part of a path
LastBase(path) == parseFSHPath(path)[Len(parseFSHPath(path))].base

---------------------------------------------------------------------------
(* C4 *)

---------------------------------------------------------------------------
(* C5 *)

NodesWithPath(els, path) == {j \in Positions(els) : els[j].path = path}

\* C5 as stated: findElementByPath succeeds only when exactly one node of the
\* tree carries the final running path.
C5_FoundOnlyWhenPathUnique ==
  Found => Cardinality(NodesWithPath(elements, call.fhirPathString)) = 1

\* C5 as amended: when no node has the path T.P and the tokens are walked,
\* the call succeeds only when exactly one of the candidates that survived
\* all tokens carries the final running path, and two or more such
\* candidates give undefined; nodes outside the candidates may carry the same
\* path.  When some node has the path T.P the first such node in tree order
\* is returned, however many there are.
C5_FoundOnlyWhenOneCandidate ==
  IsFind =>
    /\ LastLogged("fast") =>
         /\ Found
         /\ call.index \in NodesWithPath(elements, FullPath(type, call.path))
         /\ \A j \in NodesWithPath(elements, FullPath(type, call.path)) : call.index <= j
    /\ (~LastLogged("fast") /\ Found) =>
         /\ call.exact = 1
         /\ call.index \in NodesWithPath(elements, call.fhirPathString)
    /\ (~LastLogged("fast") /\ call.exact > 1) => NotFound

\* the case of C5: two surviving candidates carry the final running path
C5_Witness == NotFound /\ call.exact = 2

---------------------------------------------------------------------------
(* C6 *)

\* two nodes are the same node up to the slicing that sliceIt sets
SameNode(a, b) == [a EXCEPT !.slicing = None] = [b EXCEPT !.slicing = None]

\* the nodes of before from i on appear in after from j on, in the same order
RECURSIVE KeptFrom(_, _, _, _)
KeptFrom(before, after, i, j) ==
  IF i > Len(before) THEN TRUE
  ELSE IF j > Len(after) THEN FALSE
  ELSE IF SameNode(before[i], after[j]) THEN KeptFrom(before, after, i + 1, j + 1)
  ELSE KeptFrom(before, after, i, j + 1)

KeptInOrder(before, after) == KeptFrom(before, after, 1, 1)

\* C6: no findElementByPath call, successful or not, removes or reorders
\* nodes: every node present before the call is present after it in the same
\* relative order, so what was unfolded or sliced before a failing token stays.
C6_FindKeepsNodes ==
  [][call'.op = "findElementByPath" => KeptInOrder(elements, elements')]_vars

\* the case of C6: a call that failed after it had unfolded T.a, whose copied
\* children are still in the tree
C6_Witness ==
  /\ NotFound
  /\ call.changed
  /\ Logged("unfold")
  /\ HasId(elements, <<"T", ".", "a", ".", "c">>)
  /\ HasId(elements, <<"T", ".", "a", ".", "d">>)

---------------------------------------------------------------------------
(* C7 *)

---------------------------------------------------------------------------
(* C8 *)

\* the tree holds a node with the given path and no node with a path below it
Unexpanded(els, path) ==
  /\ \E j \in Positions(els) : els[j].path = path
  /\ ~\E j \in Positions(els) : StartsWith(els[j].path, path \o <<".">>)

\* C8: when the tree holds an unexpanded T.a whose type B the resolver knows
\* (B defines the child c), findElementByPath('a.c') unfolds T.a and returns
\* the copied child, a node with path T.a.c.
C8_UnfoldThenLocate ==
  [][(/\ call'.op = "findElementByPath"
      /\ call'.path = <<"a", ".", "c">>
      /\ call'.resolve = "defs"
      /\ type = Some(TypeT)
      /\ Unexpanded(elements, <<"T", ".", "a">>)
      /\ \A j \in Positions(elements) :
           elements[j].path = <<"T", ".", "a">> => elements[j].type = <<TypeOf(<<"B">>, None)>>)
     => (/\ call'.status = "found"
         /\ \E k \in 1..Len(call'.log) : call'.log[k] = "unfold"
         /\ elements'[call'.index].path = <<"T", ".", "a", ".", "c">>
         /\ HasId(elements', <<"T", ".", "a", ".", "d">>))]_vars

---------------------------------------------------------------------------
(* C9 *)

\* the name a target profile is known by: what follows its last '/', up to
\* the first '|'
RefNameOf(tp) ==
  LET afterSlash == SubSeq(tp, LastIndexOf(tp, "/") + 2, Len(tp))
      bar        == IndexFrom(afterSlash, "|", 1)
  IN IF bar = 0 THEN afterSlash ELSE SubSeq(afterSlash, 1, bar - 1)

\* the first type of e is a Reference with a target profile known by name
RefTargetNamed(e, name) ==
  /\ Len(e.type) >= 1
  /\ e.type[1].code = Reference
  /\ IsSome(e.type[1].targetProfile)
  /\ \E k \in 1..Len(e.type[1].targetProfile[1]) :
       RefNameOf(e.type[1].targetProfile[1][k]) = name

\* the path is one part with one bracket group
SingleBracket(path) ==
  /\ Len(parseFSHPath(path)) = 1
  /\ IsSome(parseFSHPath(path)[1].brackets)
  /\ Len(parseFSHPath(path)[1].brackets[1]) = 1

BracketOf(path) == parseFSHPath(path)[1].brackets[1][1]

\* the candidates of a path of one part: the nodes whose path starts with it
CandidatesOf(path) ==
  {j \in Positions(elements) :
     StartsWith(elements[j].path,
                Interpolate(type) \o <<".">> \o parseFSHPath(path)[1].base)}

SliceCandidates(path) ==
  {j \in CandidatesOf(path) : elements[j].sliceName = Some(BracketOf(path))}

RefCandidates(path) ==
  {j \in CandidatesOf(path) : RefTargetNamed(elements[j], BracketOf(path))}

\* C9: when no slice has the bracket's name, the bracket is resolved as a
\* reference exactly when a candidate's target profile, cut to what follows
\* its last '/' and before its first '|', equals the bracket token: P matches
\* h/P|4, and P|4 matches no target profile.
C9_RefNameWithoutVersion ==
  (IsFind /\ SingleBracket(call.path) /\ ~LastLogged("fast")
          /\ SliceCandidates(call.path) = {}) =>
    /\ LastLogged("ref") <=> RefCandidates(call.path) # {}
    /\ LastLogged("ref") => (Found => call.index \in RefCandidates(call.path))
    /\ call.path = <<"r", "[", "P", "|", "4", "]">> => NotFound

\* the case of C9: bracket P resolved to the Reference with target h/P|4
C9_Witness ==
  /\ Found
  /\ LastLogged("ref")
  /\ call.path = <<"r", "[", "P", "]">>
  /\ elements[call.index].type = <<RefToP>>

---------------------------------------------------------------------------
(* C10 *)

Min(S) == CHOOSE m \in S : \A n \in S : m <= n

---------------------------------------------------------------------------
(* Import and export *)

\* the element list of the snapshot of a json, empty if it has none
ElementsOf(part) ==
  IF IsSome(part) /\ IsSome(part[1].element) THEN part[1].element[1] ELSE <<>>

IsToJSON == call.op = "toJSON"

IsFromJSON == call.op = "fromJSON"

\* the json that the last toJSON returned
Exported == call.out[1]

\* the json that the last fromJSON was given
Imported == call.arg[1]

\* the positions of the nodes that have a diff
Changed(els) == {k \in Positions(els) : hasDiff(els[k])}

\* the position of the m-th node that has a diff
NthChanged(els, m) ==
  CHOOSE k \in Changed(els) : Cardinality({i \in Changed(els) : i <= k}) = m

C12_ExportShape ==
  [][call'.op = "toJSON" =>
       LET snap == ElementsOf(call'.out[1].snapshot)
           diff == ElementsOf(call'.out[1].differential)
       IN /\ elements' = elements
          /\ type' = type
          /\ Len(snap) = Len(elements)
          /\ \A k \in Positions(elements) : snap[k] = ElementToJSON(elements[k])
          /\ Len(diff) = Cardinality(Changed(elements))
          /\ \A m \in 1..Len(diff) :
                /\ diff[m].id = snap[NthChanged(elements, m)].id
                /\ diff[m] = ElementToJSON(
                               calculateDiff(elements[NthChanged(elements, m)]))
     ]_vars

\* an export whose differential holds some of the nodes but not all, the
\* second of them behind a node that has no diff
C12_Witness ==
  /\ IsToJSON
  /\ Len(ElementsOf(Exported.differential)) = 2
  /\ Len(ElementsOf(Exported.snapshot)) = 4
  /\ ~hasDiff(elements[1])
  /\ hasDiff(elements[2])
  /\ ~hasDiff(elements[3])
  /\ hasDiff(elements[4])

\* whether node k of els is in the differential that toJSON makes of els
InDifferential(els, k) ==
  \E m \in 1..Len(DifferentialOf(els)) : DifferentialOf(els)[m].id = els[k].id

\* the positions of the nodes of els with that id
WithId(els, id) == {i \in Positions(els) : els[i].id = id}

\* C13 as it was stated: a freshly imported snapshot has an empty
\* differential, and a node comes into the differential only by being given
\* a fixed value, a narrowed cardinality, a flag or a binding: the node a
\* rule constrains is in it, and no other step brings a node into it
C13_DiffOnlyWhereGiven ==
  [][/\ call'.op = "fromJSON" => DifferentialOf(elements') = <<>>
     /\ call'.op = "constrain" =>
           \A k \in Positions(elements') :
             InDifferential(elements', k)
               <=> (k = call'.index \/ InDifferential(elements, k))
     /\ call'.op \in {"findElementByPath", "toJSON"} =>
           \A k \in Positions(elements') :
             InDifferential(elements', k)
               => \E i \in WithId(elements, elements'[k].id) :
                    InDifferential(elements, i)
    ]_vars

\* C13, amended: a freshly imported snapshot has an empty differential; the
\* node a rule constrains comes into the differential; path resolution
\* brings into it the node it gives a slicing and the slice it adds, and not
\* the copies it unfolds; nothing else changes the differential
C13_DiffWhereGivenSlicedOrNew ==
  [][/\ call'.op = "fromJSON" => DifferentialOf(elements') = <<>>
     /\ call'.op = "constrain" =>
           \A k \in Positions(elements') :
             InDifferential(elements', k)
               <=> (k = call'.index \/ InDifferential(elements, k))
     /\ call'.op \in {"findElementByPath", "toJSON"} =>
           \A k \in Positions(elements') :
             InDifferential(elements', k)
               <=> IF WithId(elements, elements'[k].id) = {}
                   THEN IsSome(elements'[k].sliceName)
                   ELSE \E i \in WithId(elements, elements'[k].id) :
                          \/ InDifferential(elements, i)
                          \/ elements'[k].slicing # elements[i].slicing
    ]_vars

\* an imported node has been given something by a rule while another
\* imported node has none, next to a node that was sliced, its slice and a node
\* that was left alone
C13_Witness ==
  /\ call.op = "constrain"
  /\ hasDiff(elements[call.index])
  /\ IsSome(elements[call.index].original)
  /\ ~IsSome(elements[call.index].slicing)
  /\ \E k \in Positions(elements) :
        IsSome(elements[k].slicing) /\ InDifferential(elements, k)
  /\ \E k \in Positions(elements) :
        IsSome(elements[k].sliceName) /\ InDifferential(elements, k)
  /\ \E k \in Positions(elements) : ~InDifferential(elements, k)

\* whether the json has a snapshot with an element list
HasSnapshotElement(json) ==
  IsSome(json.snapshot) /\ IsSome(json.snapshot[1].element)

\* C14: fromJSON of a json whose resourceType is not StructureDefinition
\* does not give a resource built from that json: no element of its
\* snapshot is a node of the resource
C14_RequiresStructureDefinition ==
  (IsFromJSON /\ Imported.resourceType # "StructureDefinition") =>
    \A k \in Positions(elements) :
      \A m \in 1..Len(ElementsOf(Imported.snapshot)) :
        elements[k].id # ElementsOf(Imported.snapshot)[m].id

\* C15: fromJSON of a json without snapshot or without snapshot.element
\* gives a resource with exactly one node, the root of the constructor
C15_NoSnapshotRootOnly ==
  (IsFromJSON /\ ~HasSnapshotElement(Imported)) =>
    (Len(elements) = 1 /\ elements[1] = RootElement)

\* the same json but for its differential
SameButDifferential(a, b) ==
  [a EXCEPT !.differential = None] = [b EXCEPT !.differential = None]

\* C16: the tree fromJSON builds is the tree it builds from any json that
\* differs in the differential only; it has the nodes of snapshot.element
\* in the order of snapshot.element, and every node belongs to the new resource
C16_TreeFromSnapshotAlone ==
  IsFromJSON =>
    LET snap == ElementsOf(Imported.snapshot) IN
    /\ \A other \in CodecJsons :
         SameButDifferential(other, Imported)
           => fromJSON(other).elements = elements
    /\ Len(elements) = Len(snap)
    /\ \A k \in Positions(elements) :
         /\ ElementToJSON(elements[k]) = snap[k]
         /\ elements[k].structDef = Some(This)

\* a json with a differential that names an element the snapshot does not
\* have has been imported, and another json differs from it in that only
C16_Witness ==
  /\ IsFromJSON
  /\ IsSome(Imported.differential)
  /\ \E other \in CodecJsons :
       other # Imported /\ SameButDifferential(other, Imported)
  /\ Len(elements) = 2
  /\ \E m \in 1..Len(ElementsOf(Imported.differential)) :
       ~HasId(elements, ElementsOf(Imported.differential)[m].id)

---------------------------------------------------------------------------
(* Lookup by id *)

IsFindElement == call.op = "findElement"

\* C17: findElement(id) returns the first node in tree order whose id is id
\* when id is not empty and there is such a node, and undefined otherwise:
\* when no node has the id, and when the id is empty, whatever the tree holds
C17_FindElementById ==
  IsFindElement =>
    IF call.path # <<>> /\ HasId(elements, call.path)
    THEN /\ call.status = "found"
         /\ elements[call.index].id = call.path
         /\ \A j \in 1..(call.index - 1) : elements[j].id # call.path
    ELSE call.status = "notfound"

\* the empty id was looked up in a tree that holds a node with the empty
\* id, the root of a newly constructed resource
C17_Witness ==
  /\ IsFindElement
  /\ call.path = <<>>
  /\ HasId(elements, <<>>)
  /\ call.status = "notfound"

---------------------------------------------------------------------------
(* Unfolding and the resource it copies from *)

\* the id of the parent: the id without its last dotted segment
ParentId(id) ==
  IF LastIndexOf(id, ".") < 0 THEN <<>> ELSE SubSeq(id, 1, LastIndexOf(id, "."))

\* what is left of s after the first n characters
Behind(s, n) == SubSeq(s, n + 1, Len(s))

\* node n is a copy of node e of the structure definition def under node p:
\* it has what e has, its id and its path are those of e re-rooted under p,
\* it belongs to the resource of p and it is not the node of def
IsCopyUnder(n, e, def, p) ==
  /\ n.id = p.id \o Behind(e.id, Len(def.elements[1].id))
  /\ n.path = p.path \o Behind(e.path, Len(def.elements[1].path))
  /\ [ElementToJSON(n) EXCEPT !.id = e.id, !.path = e.path] = ElementToJSON(e)
  /\ n.structDef = p.structDef
  /\ n.structDef # e.structDef
  /\ \A m \in Positions(def.elements) : def.elements[m] # n

\* the nodes a findElementByPath call added by unfolding: the new nodes that
\* are not slices
Unfolded(before, after) ==
  {k \in Positions(after) :
     WithId(before, after[k].id) = {} /\ ~IsSome(after[k].sliceName)}

---------------------------------------------------------------------------
(* The root *)

\* the root of a newly constructed resource: the empty id, 0..*, the three
\* flags false, and no slice name, type, fixed value, binding or slicing
IsSyntheticRoot(e) ==
  /\ e.id = <<>>
  /\ e.min = Some(0)
  /\ e.max = Some(<<"*">>)
  /\ e.mustSupport = Some(FALSE)
  /\ e.isModifier = Some(FALSE)
  /\ e.isSummary = Some(FALSE)
  /\ e.sliceName = None
  /\ e.type = <<>>
  /\ e.fixed = None
  /\ e.binding = None
  /\ e.slicing = None
  /\ e.structDef = Some(This)

\* C19: a newly constructed resource holds exactly one node, the synthetic
\* root; and an addElement or findElementByPath call on a tree that is not
\* empty leaves the node at index 0 where and what it is, so that no node is
\* ever inserted in front of it
C19_RootStaysFirst ==
  [][/\ call.op = "new" =>
          (Len(elements) = 1 /\ IsSyntheticRoot(elements[1]))
     /\ (call'.op \in {"addElement", "findElementByPath"} /\ Len(elements) > 0) =>
          (Len(elements') >= Len(elements) /\ elements'[1] = elements[1])
    ]_vars

\* nodes have been added to a tree, by addElement at last, and the first
\* node is the root T of the snapshot
C19_Witness ==
  /\ call.op = "addElement"
  /\ Len(elements) = 4
  /\ elements[1].id = <<"T">>
  /\ IsSome(elements[1].original)
  /\ \A k \in 2..Len(elements) : elements[k].id # <<"T">>

---------------------------------------------------------------------------
(* addElement on a tree that is well-formed *)

Max(S) == CHOOSE m \in S : \A n \in S : m >= n

\* a is a proper string prefix of b
ProperPrefix(a, b) == Len(a) < Len(b) /\ StartsWith(b, a)

\* the ids of two siblings: different ids with the same parent id
Siblings(a, b) == a # b /\ ParentId(a) = ParentId(b)

\* no name of an element is a proper string prefix of the name of a sibling;
\* siblings have the same parent id, so that the names compare as the ids do
NoSiblingPrefix(ids) ==
  \A a \in ids, b \in ids : Siblings(a, b) => ~ProperPrefix(a, b)

IdsOf(els) == {els[j].id : j \in Positions(els)}

\* the positions of the parent of id and of the nodes below the parent
ParentAndBelow(els, id) ==
  {j \in Positions(els) :
     els[j].id = ParentId(id) \/ IsDescendantId(els[j].id, ParentId(id))}

\* what C20 asks of the tree and of the id of the new node
WellFormedFor(els, id) ==
  /\ ChildLocality(els)
  /\ LastIndexOf(id, ".") >= 0
  /\ HasId(els, ParentId(id))
  /\ NoSiblingPrefix(IdsOf(els) \cup {id})

\* els with element put behind position at
InsertedBehind(els, at, element) ==
  SubSeq(els, 1, at) \o <<element>> \o SubSeq(els, at + 1, Len(els))

\* C20 as it was stated: on a tree with child-locality that holds the parent
\* of the new node and in which no name is a proper string prefix of the name
\* of a sibling, addElement puts the new node right behind the last node
\* below its parent, adds this one node, keeps the others in their order, and
\* child-locality holds afterwards
C20_InsertedAsLastChild ==
  [][(call'.op = "addElement" /\ WellFormedFor(elements, call'.path)) =>
       /\ \E element \in TreeElements :
            /\ element.id = call'.path
            /\ elements' = InsertedBehind(elements,
                                          Max(ParentAndBelow(elements, call'.path)),
                                          element)
       /\ ChildLocality(elements')
    ]_vars

\* every node but the first has its parent in the tree
ParentClosed(els) ==
  \A j \in 2..Len(els) : HasId(els, ParentId(els[j].id))

\* no two nodes have the same id
UniqueIds(els) ==
  \A i \in Positions(els), j \in Positions(els) : els[i].id = els[j].id => i = j

\* C20, amended: the same, on a tree in which in addition every node but the
\* first has its parent in the tree and no two nodes have the same id, and
\* for a new node whose id no node of the tree has
C20_InsertedAsLastChildIfNew ==
  [][(/\ call'.op = "addElement"
      /\ WellFormedFor(elements, call'.path)
      /\ ParentClosed(elements)
      /\ UniqueIds(elements)
      /\ ~HasId(elements, call'.path)) =>
       /\ \E element \in TreeElements :
            /\ element.id = call'.path
            /\ elements' = InsertedBehind(elements,
                                          Max(ParentAndBelow(elements, call'.path)),
                                          element)
       /\ ChildLocality(elements')
    ]_vars

\* a new node has been put between the last node below its parent and the
\* next sibling of its parent, in a tree that is well-formed
C20_Witness ==
  /\ call.op = "addElement"
  /\ call.path = <<"T", ".", "a", ".", "d">>
  /\ Len(elements) = 4
  /\ elements[3].id = <<"T", ".", "a", ".", "d">>
  /\ elements[2].id = <<"T", ".", "a">>
  /\ elements[4].id = <<"T", ".", "r">>
  /\ ChildLocality(elements)
  /\ NoSiblingPrefix(IdsOf(elements))
  /\ UniqueIds(elements)
  /\ ParentClosed(elements)

---------------------------------------------------------------------------
(* The brackets of a reference *)

\* the steps of the loop of the last call
Steps == 1..Len(call.trace)

\* some allowed type of e is a Reference with a target profile named refName
AnyTypeRefersTo(e, refName) ==
  \E k \in 1..Len(e.type) :
    /\ e.type[k].code = Reference
    /\ IsSome(e.type[k].targetProfile)
    /\ \E j \in 1..Len(e.type[k].targetProfile[1]) :
         TargetRefName(e.type[k].targetProfile[1][j]) = refName

\* what reference matching is said to accept for the bracket tokens
RefAccepts(e, brackets) ==
  /\ Len(brackets) = 1 \/ e.sliceName = Some(Join(DropLast(brackets, 1), "/"))
  /\ AnyTypeRefersTo(e, brackets[Len(brackets)])

\* the candidates of step st that reference matching is said to accept
RefAccepted(st) ==
  SelectSeq(st.matched, LAMBDA c : RefAccepts(st.after[c], st.brackets[1]))

\* C21: when no slice is named by the brackets, reference matching takes the
\* first candidate that has, among all its allowed types, a Reference with a
\* target profile named by the last bracket token, and whose slice name is the
\* preceding tokens joined by '/' if there are any; it fails only if there is
\* no such candidate
C21_RefMatchesAnyType ==
  IsFind =>
    \A k \in Steps :
      LET st == call.trace[k] IN
      st.bracket \in {"ref", "notfound"} =>
        /\ (st.bracket = "ref") = (Len(RefAccepted(st)) > 0)
        /\ st.bracket = "ref" => st.candidates[1] = RefAccepted(st)[1]

---------------------------------------------------------------------------
(* The parts of a path *)

ChoiceMarker == <<"[", "x", "]">>

\* how long the base name of a token is said to be: the name up to the first
\* '[', together with the '[x]' of a choice if that is what follows the name
BaseLength(token) ==
  LET i == IndexFrom(token, "[", 1) IN
  IF i = 0 THEN Len(token)
  ELSE IF i + 2 <= Len(token) /\ SubSeq(token, i, i + 2) = ChoiceMarker THEN i + 2
  ELSE i - 1

\* the bracket tokens of the groups [tok1][tok2]... that follow the base name
BracketTokens(token) ==
  LET groups == SubSeq(token, BaseLength(token) + 1, Len(token))
      pieces == Split(groups, "[")
  IN IF Len(groups) = 0 THEN None
     ELSE Some([k \in 1..(Len(pieces) - 1) |-> DropLast(pieces[k + 1], 1)])

\* C22: the '[x]' of a choice is never made a bracket token: the base name of
\* each part of the path is its name together with a '[x]' that follows the
\* name, and its bracket tokens are those of the groups after that
C22_ChoiceMarkerStaysInBase ==
  IsFind =>
    \A k \in Steps :
      LET token == Split(call.path, ".")[k] IN
      /\ call.trace[k].base = SubSeq(token, 1, BaseLength(token))
      /\ call.trace[k].brackets = BracketTokens(token)

---------------------------------------------------------------------------
(* Choice substitution *)

\* a type code with its first letter in upper case and the other letters as
\* they are
UpperFirst(code) ==
  IF Len(code) = 0 THEN <<>> ELSE <<ToUpperChar(code[1])>> \o Tail(code)

\* e is a choice node (not one of its slices) and path is its path with the
\* '[x]' replaced by the type code of its k-th allowed type, first letter in
\* upper case
NamesChoiceType(e, k, path) ==
  /\ EndsWith(e.path, ChoiceMarker)
  /\ ~IsSome(e.sliceName)
  /\ path = DropLast(e.path, 3) \o UpperFirst(e.type[k].code)

\* C23: a path of one part that no node has, and that names an allowed type
\* of a choice node of the tree, is resolved: the call returns a slice of that
\* choice node whose only allowed type is the type named
C23_ChoiceForEveryType ==
  IsFind /\ Len(call.trace) = 1 =>
    LET st   == call.trace[1]
        path == Interpolate(type) \o <<".">> \o st.base
    IN \A i \in 1..Len(st.before) :
         \A k \in 1..Len(st.before[i].type) :
           st.narrowed = 0 /\ NamesChoiceType(st.before[i], k, path) =>
             /\ Found
             /\ st.sliced
             /\ elements[call.index].type = <<st.before[i].type[k]>>
             /\ StartsWith(elements[call.index].id, st.before[i].id \o <<":">>)

\* the slicing of a choice: by type, on $this, unordered, open
TypeSlicing ==
  Some([discriminator |-> <<[type |-> "type", path |-> "$this"]>>,
        ordered |-> FALSE, rules |-> "open"])

\* the running path that step k of the last call started with
PathBefore(k) == IF k = 1 THEN Interpolate(type) ELSE call.trace[k - 1].path

\* the id of the node that the slice with id sliceId is a slice of
SlicedId(sliceId) == SubSeq(sliceId, 1, LastIndexOf(sliceId, ":"))

\* what holds after every choice substitution of step k, whether or not the
\* slice was there before: the choice node is sliced by type, and the slice
\* that is returned is named after the part of the path, allows the single
\* matched type, is the only candidate and gives the running path
ChoiceSliced(k) ==
  LET st     == call.trace[k]
      slice  == st.slice[1]
      asked  == PathBefore(k) \o <<".">> \o st.base
  IN /\ \E j \in 1..Len(st.after) :
          /\ st.after[j].id = SlicedId(slice.id)
          /\ st.after[j].slicing = TypeSlicing
          /\ \E t \in 1..Len(st.after[j].type) :
               /\ slice.type = <<st.after[j].type[t]>>
               /\ DropLast(st.after[j].path, 3) \o capitalize(slice.type[1].code) = asked
     /\ slice.sliceName = Some(st.base)
     /\ Len(st.matched) = 1
     /\ st.after[st.matched[1]] = slice
     /\ st.path = slice.path

---------------------------------------------------------------------------
(* The order of the steps for a part of the path *)

\* C25: for each part of the path, narrowing comes first; a choice is
\* substituted only if narrowing left no candidate, and a node is unfolded
\* only if narrowing and choice substitution left none and the part before
\* left exactly one candidate. So nothing is sliced or unfolded when narrowing
\* found a candidate, and nothing is unfolded after a substitution or when
\* the candidates before were none or more than one
C25_StepsInOrder ==
  IsFind =>
    \A k \in Steps :
      LET st == call.trace[k] IN
      /\ st.narrowed > 0 =>
           ~st.sliced /\ ~st.unfold /\ st.tree = st.before /\ st.after = st.before
      /\ st.sliced => st.narrowed = 0 /\ ~st.unfold /\ st.after = st.tree
      /\ st.unfold => st.narrowed = 0 /\ ~st.sliced /\ st.prev = 1
      /\ ~st.sliced => st.tree = st.before
      /\ st.prev # 1 => ~st.unfold /\ st.after = st.tree

\* a call that substituted a choice for one part and unfolded the slice for
\* the next
C25_Witness ==
  /\ IsFind
  /\ \E j, k \in Steps :
       /\ j < k
       /\ call.trace[j].sliced
       /\ call.trace[k].unfold
       /\ call.trace[k].prev = 1
       /\ Len(call.trace[k].after) > Len(call.trace[k].tree)

---------------------------------------------------------------------------
(* A type that cannot be resolved *)

\* the resolver of the last call knows no definition of an allowed type of e:
\* it is the default resolver, or the type is neither B nor s
Unresolvable(e) ==
  \A t \in 1..Len(e.type) :
    call.resolve = "none" \/ e.type[t].code \notin {<<"B">>, <<"s">>}

\* step k called unfold, nothing came back, it was the last step, the call
\* returned undefined and the tree is what it was before unfold
UnfoldFailed(k) ==
  /\ call.trace[k].returned = 0
  /\ k = Len(call.trace)
  /\ NotFound
  /\ call.trace[k].after = call.trace[k].tree
  /\ elements = call.trace[k].tree

HasChildren(els, e) ==
  \E j \in 1..Len(els) : StartsWith(els[j].id, e.id \o <<".">>)

---------------------------------------------------------------------------
(* The brackets of a named slice *)

\* the candidates of step st whose slice name is the bracket tokens joined by '/'
SliceNamed(st) ==
  SelectSeq(st.matched,
            LAMBDA c : st.after[c].sliceName = Some(Join(st.brackets[1], "/")))

\* id is the id of node e or of a node below it
InSubtree(id, e) == id = e.id \/ StartsWith(id, e.id \o <<".">>)

\* C27: the brackets of a part select a slice exactly when a candidate has the
\* bracket tokens joined by '/' as its slice name, and then the first such
\* candidate; the candidates become that slice and the nodes below it and no
\* other node, and a node that the call returns is in the subtree of the slice
C27_SliceByExactName ==
  IsFind =>
    \A k \in Steps :
      LET st == call.trace[k] IN
      IsSome(st.brackets) /\ st.bracket # "none" =>
        /\ (st.bracket = "slice") = (Len(SliceNamed(st)) > 0)
        /\ st.bracket = "slice" =>
             LET slice == st.after[SliceNamed(st)[1]] IN
             /\ st.candidates[1] = SliceNamed(st)[1]
             /\ \A j \in 1..Len(st.after) :
                  (\E c \in 1..Len(st.candidates) : st.candidates[c] = j)
                    = InSubtree(st.after[j].id, slice)
             /\ Found => InSubtree(elements[call.index].id, slice)

\* the brackets [P][Q] have selected the re-slice P/Q, which is returned
C27_Witness ==
  /\ Found
  /\ \E k \in Steps :
       /\ call.trace[k].bracket = "slice"
       /\ Len(call.trace[k].brackets[1]) = 2
       /\ elements[call.index].sliceName = Some(<<"P", "/", "Q">>)

---------------------------------------------------------------------------
(* A sibling whose name extends the name of the node *)

\* the tree that the last call started with
TreeBefore == IF Len(call.trace) > 0 THEN call.trace[1].before ELSE elements

IdOfAb == <<"T", ".", "a", "b">>

\* the tree without the sibling T.ab of T.a
WithoutAb(els) == SelectSeq(els, LAMBDA e : e.id # IdOfAb)

\* what the last call gives on the tree that it started with, T.ab taken out
OnTreeWithoutAb ==
  findElementByPath(type, WithoutAb(TreeBefore), call.path, call.resolve)

\* C28: a call on a tree with the sibling T.ab next to T.a comes to what it
\* comes to on the same tree without T.ab: the same node is returned or none
\* in both, and the trees after the call are the same but for T.ab. So 'a.c'
\* unfolds T.a and returns T.a.c with or without T.ab
C28_SiblingMakesNoDifference ==
  IsFind /\ HasId(TreeBefore, IdOfAb) =>
    LET other == OnTreeWithoutAb IN
    /\ call.status = other.status
    /\ WithoutAb(elements) = other.elements
    /\ call.status = "found" => elements[call.index] = other.elements[other.index]

====
